---- MODULE Spec2Model ----
(***************************************************************************)
(* Model of github_pr.py: the paginated pull-request fetch                 *)
(* (fetch_pull_requests), its date validation (validate_date), its         *)
(* session factory (create_session) and the response cache the session     *)
(* keeps under the name "github_cache".                                    *)
(*                                                                         *)
(* Strings that the code parses or formats are sequences of one-character  *)
(* strings, so that parsing and formatting are computed, not assumed.      *)
(* An Optional argument is a tuple of length 0 (None) or 1.                 *)
(***************************************************************************)
EXTENDS Integers, Sequences, FiniteSets, TLC

VARIABLES
    args,        \* per call: the arguments limit, created_after, created_before
    pc,          \* per call: position in fetch_pull_requests
    session,     \* per call: "none" | "open" | "closed"
    pulls,       \* per call: the accumulator
    page,        \* per call: the page counter
    inflight,    \* per call: set of requests passed to session.get and not yet answered
    reqlog,      \* per call: history of the params of every session.get call
    fetched,     \* per call: history of the batches received, as [page, n]
    failedAt,    \* per call: number of session.get calls made when a request failed, 0 if none failed
    failStatus,  \* per call: HTTP status of the failed response, 0 if none
    outcome,     \* per call: how the call ended: [exc, msg, value]
    badUse,      \* per call: TRUE once session.get was called on a session that is not open
    crossReads,  \* per call: number of responses served from a cache entry another call wrote
    netReqs,     \* per call: number of requests that went to the network
    cache,       \* the store "github_cache": cache key -> [page, n, writer]
    served       \* the server's answers so far: cache key -> [kind, n, status]

vars == <<args, pc, session, pulls, page, inflight, reqlog, fetched, failedAt,
          failStatus, outcome, badUse, crossReads, netReqs, cache, served>>

\* Optional[T]: None is the empty tuple and a value v is the tuple <<v>>.
None == <<>>
Some(v) == <<v>>
Val(o) == o[1]

\* ---------------------------------------------------------------- bounds
\* The server's listing ends by page MaxPage: only pages below MaxPage can be
\* full, so the page counter never passes MaxPage.
MaxPage == 3

\* ------------------------------------------------------ program constants
PER_PAGE == 100

Calls == {1, 2}

\* -------------------------------------------------------- character data
Digits == {"0", "1", "2", "3", "4", "5", "6", "7", "8", "9"}

DigitVal(ch) ==
    CASE ch = "0" -> 0 [] ch = "1" -> 1 [] ch = "2" -> 2 [] ch = "3" -> 3
      [] ch = "4" -> 4 [] ch = "5" -> 5 [] ch = "6" -> 6 [] ch = "7" -> 7
      [] ch = "8" -> 8 [] ch = "9" -> 9 [] OTHER -> 0

At(s, i) == IF i >= 1 /\ i <= Len(s) THEN s[i] ELSE "EOS"

IsLeap(y) == (y % 4 = 0 /\ y % 100 # 0) \/ y % 400 = 0

DaysInMonth(y, m) ==
    IF m = 2 THEN (IF IsLeap(y) THEN 29 ELSE 28)
    ELSE IF m \in {4, 6, 9, 11} THEN 30 ELSE 31

\* The directive %m of strptime is the regular expression 1[0-2]|0[1-9]|[1-9];
\* it is followed by "-" in the format, so an alternative is taken only when
\* the character after it is "-".  The result is the number of characters
\* taken, 0 when no alternative matches.
MonthLen(s, i) ==
    IF /\ \/ (At(s, i) = "1" /\ At(s, i + 1) \in {"0", "1", "2"})
          \/ (At(s, i) = "0" /\ At(s, i + 1) \in Digits \ {"0"})
       /\ At(s, i + 2) = "-"
    THEN 2
    ELSE IF At(s, i) \in Digits \ {"0"} /\ At(s, i + 1) = "-" THEN 1 ELSE 0

\* The directive %d is 3[0-1]|[1-2]\d|0[1-9]|[1-9]| [1-9]; it ends the format,
\* so the first alternative that matches is the one taken.
DayLen(s, i) ==
    IF At(s, i) = "3" /\ At(s, i + 1) \in {"0", "1"} THEN 2
    ELSE IF At(s, i) \in {"1", "2"} /\ At(s, i + 1) \in Digits THEN 2
    ELSE IF At(s, i) = "0" /\ At(s, i + 1) \in Digits \ {"0"} THEN 2
    ELSE IF At(s, i) \in Digits \ {"0"} THEN 1
    ELSE IF At(s, i) = " " /\ At(s, i + 1) \in Digits \ {"0"} THEN 2
    ELSE 0

NumVal(s, i, n) ==
    IF n = 1 THEN DigitVal(At(s, i))
    ELSE IF At(s, i) = " " THEN DigitVal(At(s, i + 1))
    ELSE 10 * DigitVal(At(s, i)) + DigitVal(At(s, i + 1))

\* datetime.strptime(date_str, "%Y-%m-%d") returns a datetime (TRUE) or raises
\* ValueError (FALSE): the text must match \d\d\d\d-%m-%d, nothing may remain
\* after the match, and the numbers must name a day of the calendar.
strptime_ok(s) ==
    /\ \A i \in 1..4 : At(s, i) \in Digits
    /\ At(s, 5) = "-"
    /\ LET ml == MonthLen(s, 6)
           dl == DayLen(s, 6 + ml + 1)
           y  == 1000 * DigitVal(At(s, 1)) + 100 * DigitVal(At(s, 2))
                 + 10 * DigitVal(At(s, 3)) + DigitVal(At(s, 4))
           m  == NumVal(s, 6, ml)
           d  == NumVal(s, 6 + ml + 1, dl)
       IN  /\ ml > 0
           /\ dl > 0
           /\ Len(s) = 6 + ml + dl
           /\ y >= 1
           /\ d <= DaysInMonth(y, m)

validate_date(date_str) == strptime_ok(date_str)

\* Python's truth value of an Optional[int]: None and 0 are false.
TruthyInt(o) == o # None /\ Val(o) # 0

\* Python's truth value of an Optional[str]: None and "" are false.
TruthyStr(o) == o # None /\ Val(o) # <<>>

\* Python's s[:n]: the first n items, and for a negative n all but the last -n.
SliceTo(s, n) ==
    IF n >= 0 THEN SubSeq(s, 1, IF n < Len(s) THEN n ELSE Len(s))
    ELSE SubSeq(s, 1, IF Len(s) + n > 0 THEN Len(s) + n ELSE 0)

\* ---------------------------------------------------------------- inputs
D_2023_01_01 == <<"2", "0", "2", "3", "-", "0", "1", "-", "0", "1">>
D_2023_12_31 == <<"2", "0", "2", "3", "-", "1", "2", "-", "3", "1">>
D_2023_13_01 == <<"2", "0", "2", "3", "-", "1", "3", "-", "0", "1">>
D_2023_02_30 == <<"2", "0", "2", "3", "-", "0", "2", "-", "3", "0">>
D_2023_1_5   == <<"2", "0", "2", "3", "-", "1", "-", "5">>
D_invalid    == <<"i", "n", "v", "a", "l", "i", "d", "-", "d", "a", "t", "e">>
D_empty      == <<>>

DateStrings == {D_2023_01_01, D_2023_12_31, D_2023_13_01, D_2023_02_30,
                D_2023_1_5, D_invalid, D_empty}

DateArgs == {None} \cup {Some(d) : d \in DateStrings}

LimitArgs == {None} \cup {Some(l) : l \in {-1, 0, 1, 50, 100, 150, 250}}

AllArgs == [limit : LimitArgs, created_after : DateArgs, created_before : DateArgs]

\* The arguments of two calls that run side by side.
ConcArgs == [limit : {None, Some(150)},
             created_after : {None, Some(D_2023_01_01)},
             created_before : {None}]

PageSizes == {0, 1, PER_PAGE - 1, PER_PAGE}

Statuses == {401, 403, 404, 500}

\* The records of page pg when the server answers it with n records: every
\* record of the listing has its own number, in the server's order.
PageBody(pg, n) == [i \in 1..n |-> (pg - 1) * PER_PAGE + i]

\* ------------------------------------------------------------- outcomes
Running == [kind |-> "running", exc |-> "", msg |-> "", value |-> <<>>]
Returned(v) == [kind |-> "return", exc |-> "", msg |-> "", value |-> v]
Raised(e, m) == [kind |-> "raise", exc |-> e, msg |-> m, value |-> <<>>]

\* ------------------------------------------------- fetch_pull_requests
\* Lines 84-87: the two date checks, in order.
DateCheck(created_after, created_before) ==
    IF TruthyStr(created_after) /\ ~validate_date(Val(created_after))
    THEN Raised("ValueError", "created_after must be in YYYY-MM-DD format")
    ELSE IF TruthyStr(created_before) /\ ~validate_date(Val(created_before))
    THEN Raised("ValueError", "created_before must be in YYYY-MM-DD format")
    ELSE Running

\* Lines 109-115: the query parameters of one page request.  "created" is
\* written up to three times, the last write stays.
BuildParams(pg, created_after, created_before) ==
    LET p0 == [page |-> pg, per_page |-> PER_PAGE, created |-> None]
        p1 == IF TruthyStr(created_after)
              THEN [p0 EXCEPT !.created = Some(<<">", "=">> \o Val(created_after))]
              ELSE p0
        p2 == IF TruthyStr(created_before)
              THEN [p1 EXCEPT !.created = Some(<<"<", "=">> \o Val(created_before))]
              ELSE p1
    IN  IF TruthyStr(created_after) /\ TruthyStr(created_before)
        THEN [p2 EXCEPT !.created =
                 Some(Val(created_after) \o <<".", ".">> \o Val(created_before))]
        ELSE p2

\* ProcessBatch with the batch put in front of the accumulator.
ProcessBatch_Prepend(pl, batch, limit, pg) ==
    IF batch = <<>>
    THEN [pulls |-> pl, page |-> pg, next |-> "return"]
    ELSE LET ext == batch \o pl
         IN  IF TruthyInt(limit) /\ Len(ext) >= Val(limit)
             THEN [pulls |-> SliceTo(ext, Val(limit)), page |-> pg, next |-> "return"]
             ELSE IF Len(batch) < PER_PAGE
             THEN [pulls |-> ext, page |-> pg, next |-> "return"]
             ELSE [pulls |-> ext, page |-> pg + 1, next |-> "loop"]

\* ProcessBatch with the page counter advanced by two.
ProcessBatch_SkipPage(pl, batch, limit, pg) ==
    IF batch = <<>>
    THEN [pulls |-> pl, page |-> pg, next |-> "return"]
    ELSE LET ext == pl \o batch
         IN  IF TruthyInt(limit) /\ Len(ext) >= Val(limit)
             THEN [pulls |-> SliceTo(ext, Val(limit)), page |-> pg, next |-> "return"]
             ELSE IF Len(batch) < PER_PAGE
             THEN [pulls |-> ext, page |-> pg, next |-> "return"]
             ELSE [pulls |-> ext, page |-> pg + 2, next |-> "loop"]

\* Lines 121-132: what the loop does with a batch: the new accumulator, the
\* new page counter, and whether the loop goes on or the function returns.
ProcessBatch(pl, batch, limit, pg) ==
    IF batch = <<>>
    THEN [pulls |-> pl, page |-> pg, next |-> "return"]
    ELSE LET ext == pl \o batch
         IN  IF TruthyInt(limit) /\ Len(ext) >= Val(limit)
             THEN [pulls |-> SliceTo(ext, Val(limit)), page |-> pg, next |-> "return"]
             ELSE IF Len(batch) < PER_PAGE
             THEN [pulls |-> ext, page |-> pg, next |-> "return"]
             ELSE [pulls |-> ext, page |-> pg + 1, next |-> "loop"]

\* Lines 2-17: the names the module imports.
ImportedNames == {"os", "sys", "Optional", "re", "datetime", "aiohttp",
                  "aiohttp_client_cache", "Console", "Table", "Progress",
                  "SpinnerColumn", "TextColumn", "Panel", "Columns", "Text",
                  "ROUNDED", "argparse", "load_dotenv"}

\* An except clause that swallows the failure and lets the loop go on.
HandleFailure_Retry(status) == [outcome |-> Running, next |-> "loop"]

\* Lines 134-143: the except clause.  Its expression
\* requests.exceptions.RequestException is evaluated when an exception reaches
\* it; the name requests is bound nowhere in the module, so the evaluation
\* raises NameError and the body of the handler does not run.
HandleFailure(status) ==
    IF "requests" \notin ImportedNames
    THEN [outcome |-> Raised("NameError", ""), next |-> "finally"]
    ELSE [outcome |-> Raised("SystemExit",
                         CASE status = 401 -> "Error: Invalid GitHub token"
                           [] status = 403 -> "Error: API rate limit exceeded"
                           [] status = 404 -> "Error: Repository not found"
                           [] OTHER -> "Error: transport"),
          next |-> "finally"]

\* Line 95: the state of a session that create_session returns.
session_new == "open"

\* A finally clause that leaves the session as it is.
session_close_Leak(s) == s

\* Line 147: the state of a session after session.close().
session_close(s) == "closed"

\* A cache key that leaves the page number out.
CacheKey_NoPage(params) == [per_page |-> params.per_page, created |-> params.created]

\* Lines 57-64: the key under which the cached session stores a GET response:
\* the URL and the query parameters of the request.
CacheKey(params) == params

\* --------------------------------------------------------------- actions
NoEntry == [page |-> 0, n |-> 0, writer |-> 0]

\* Lines 84-87: an invalid date ends the call with ValueError.
ValidateDates ==
    \E c \in Calls :
        /\ pc[c] = "start"
        /\ LET r == DateCheck(args[c].created_after, args[c].created_before)
           IN  IF r.kind = "raise"
               THEN /\ pc' = [pc EXCEPT ![c] = "done"]
                    /\ outcome' = [outcome EXCEPT ![c] = r]
               ELSE /\ pc' = [pc EXCEPT ![c] = "create"]
                    /\ UNCHANGED outcome
        /\ UNCHANGED <<args, session, pulls, page, inflight, reqlog, fetched,
                       failedAt, failStatus, badUse, crossReads, netReqs,
                       cache, served>>

\* Lines 89-105: the session is created, the accumulator is empty and the
\* page counter is 1 (the progress display of lines 100-105 opens and closes
\* before the loop and touches none of these).
CreateSession ==
    \E c \in Calls :
        /\ pc[c] = "create"
        /\ session' = [session EXCEPT ![c] = session_new]
        /\ pulls' = [pulls EXCEPT ![c] = <<>>]
        /\ page' = [page EXCEPT ![c] = 1]
        /\ pc' = [pc EXCEPT ![c] = "loop"]
        /\ UNCHANGED <<args, inflight, reqlog, fetched, failedAt, failStatus,
                       outcome, badUse, crossReads, netReqs, cache, served>>

\* Lines 108-118: the parameters are built and passed to session.get, which
\* looks the request up in the cache and sends it to the server on a miss.
SendRequest ==
    \E c \in Calls :
        /\ pc[c] = "loop"
        /\ page[c] <= MaxPage
        /\ LET params == BuildParams(page[c], args[c].created_after,
                                     args[c].created_before)
               k      == CacheKey(params)
               hit    == k \in DOMAIN cache
           IN  /\ inflight' = [inflight EXCEPT ![c] = @ \cup
                      {[params |-> params,
                        src    |-> IF hit THEN "cache" ELSE "network",
                        entry  |-> IF hit THEN cache[k] ELSE NoEntry]}]
               /\ reqlog' = [reqlog EXCEPT ![c] = Append(@, params)]
               /\ netReqs' = [netReqs EXCEPT ![c] = IF hit THEN @ ELSE @ + 1]
        /\ badUse' = [badUse EXCEPT ![c] = @ \/ session[c] # "open"]
        /\ pc' = [pc EXCEPT ![c] = "await"]
        /\ UNCHANGED <<args, session, pulls, page, fetched, failedAt,
                       failStatus, outcome, crossReads, cache, served>>

\* Lines 120-132 and 145: the batch is processed; the loop goes on, or the
\* value to return is fixed and the finally clause is entered.
Deliver(c, r, pg, n) ==
    LET res == ProcessBatch(pulls[c], PageBody(pg, n), args[c].limit, page[c])
    IN  /\ pulls' = [pulls EXCEPT ![c] = res.pulls]
        /\ page' = [page EXCEPT ![c] = res.page]
        /\ fetched' = [fetched EXCEPT ![c] = Append(@, [page |-> pg, n |-> n])]
        /\ inflight' = [inflight EXCEPT ![c] = @ \ {r}]
        /\ IF res.next = "loop"
           THEN /\ pc' = [pc EXCEPT ![c] = "loop"]
                /\ UNCHANGED outcome
           ELSE /\ pc' = [pc EXCEPT ![c] = "finally"]
                /\ outcome' = [outcome EXCEPT ![c] = Returned(res.pulls)]

\* session.get answers from the cache entry it found.
ReceiveCached ==
    \E c \in Calls : \E r \in inflight[c] :
        /\ pc[c] = "await"
        /\ r.src = "cache"
        /\ Deliver(c, r, r.entry.page, r.entry.n)
        /\ crossReads' = [crossReads EXCEPT ![c] =
                             IF r.entry.writer # c THEN @ + 1 ELSE @]
        /\ UNCHANGED <<args, session, reqlog, failedAt, failStatus, badUse,
                       netReqs, cache, served>>

\* The server answers 200 with n records; the session stores the response.
ReceiveOk ==
    \E c \in Calls : \E r \in inflight[c] : \E n \in PageSizes :
        /\ pc[c] = "await"
        /\ r.src = "network"
        /\ n = PER_PAGE => r.params.page < MaxPage
        /\ LET a == [kind |-> "ok", n |-> n, status |-> 200]
           IN  IF r.params \in DOMAIN served
               THEN served[r.params] = a /\ UNCHANGED served
               ELSE served' = (r.params :> a) @@ served
        /\ cache' = (CacheKey(r.params) :>
                        [page |-> r.params.page, n |-> n, writer |-> c]) @@ cache
        /\ Deliver(c, r, r.params.page, n)
        /\ UNCHANGED <<args, session, reqlog, failedAt, failStatus, badUse,
                       crossReads, netReqs>>

\* Lines 119 and 134-143: raise_for_status raises and the exception reaches
\* the except clause.
ReceiveFail ==
    \E c \in Calls : \E r \in inflight[c] : \E s \in Statuses :
        /\ pc[c] = "await"
        /\ r.src = "network"
        /\ LET a == [kind |-> "fail", n |-> 0, status |-> s]
           IN  IF r.params \in DOMAIN served
               THEN served[r.params] = a /\ UNCHANGED served
               ELSE served' = (r.params :> a) @@ served
        /\ inflight' = [inflight EXCEPT ![c] = @ \ {r}]
        /\ failedAt' = [failedAt EXCEPT ![c] = Len(reqlog[c])]
        /\ failStatus' = [failStatus EXCEPT ![c] = s]
        /\ outcome' = [outcome EXCEPT ![c] = HandleFailure(s).outcome]
        /\ pc' = [pc EXCEPT ![c] = HandleFailure(s).next]
        /\ UNCHANGED <<args, session, pulls, page, reqlog, fetched, badUse,
                       crossReads, netReqs, cache>>

\* Lines 146-147: the finally clause closes the session; the call ends.
Close ==
    \E c \in Calls :
        /\ pc[c] = "finally"
        /\ session' = [session EXCEPT ![c] = session_close(@)]
        /\ pc' = [pc EXCEPT ![c] = "done"]
        /\ UNCHANGED <<args, pulls, page, inflight, reqlog, fetched, failedAt,
                       failStatus, outcome, badUse, crossReads, netReqs,
                       cache, served>>

\* Line 62: a stored response expires five minutes after it was stored.
Expire ==
    \E k \in DOMAIN cache :
        /\ cache' = [x \in DOMAIN cache \ {k} |-> cache[x]]
        /\ UNCHANGED <<args, pc, session, pulls, page, inflight, reqlog,
                       fetched, failedAt, failStatus, outcome, badUse,
                       crossReads, netReqs, served>>

Next ==
    \/ ValidateDates
    \/ CreateSession
    \/ SendRequest
    \/ ReceiveCached
    \/ ReceiveOk
    \/ ReceiveFail
    \/ Close
    \/ Expire

\* ------------------------------------------------------- specifications
NoArgs == [limit |-> None, created_after |-> None, created_before |-> None]

InitCall ==
    /\ session = [c \in Calls |-> "none"]
    /\ pulls = [c \in Calls |-> <<>>]
    /\ page = [c \in Calls |-> 0]
    /\ inflight = [c \in Calls |-> {}]
    /\ reqlog = [c \in Calls |-> <<>>]
    /\ fetched = [c \in Calls |-> <<>>]
    /\ failedAt = [c \in Calls |-> 0]
    /\ failStatus = [c \in Calls |-> 0]
    /\ outcome = [c \in Calls |-> Running]
    /\ badUse = [c \in Calls |-> FALSE]
    /\ crossReads = [c \in Calls |-> 0]
    /\ netReqs = [c \in Calls |-> 0]
    /\ served = <<>>

\* One call, with any arguments; the cache file is empty or holds the first
\* page that an earlier run (writer 0) stored less than five minutes ago.
Init ==
    /\ \E a \in AllArgs : args = [c \in Calls |-> IF c = 1 THEN a ELSE NoArgs]
    /\ pc = [c \in Calls |-> IF c = 1 THEN "start" ELSE "idle"]
    /\ InitCall
    /\ \E n \in {0, 1, PER_PAGE} :
           cache = IF n = 0 THEN <<>>
                   ELSE (CacheKey(BuildParams(1, args[1].created_after,
                                              args[1].created_before))
                           :> [page |-> 1, n |-> n, writer |-> 0])

Spec == Init /\ [][Next]_vars

\* Two calls side by side, with an empty cache.
InitConc ==
    /\ args \in [Calls -> ConcArgs]
    /\ pc = [c \in Calls |-> "start"]
    /\ InitCall
    /\ cache = <<>>

SpecConc == InitConc /\ [][Next]_vars

\* ---------------------------------------------------------------- claims
Success(c) == pc[c] = "done" /\ outcome[c].kind = "return"

RECURSIVE SumN(_, _)
\* The number of records in the first j batches of a history.
SumN(f, j) == IF j = 0 THEN 0 ELSE SumN(f, j - 1) + f[j].n

RECURSIVE ConcatTo(_, _)
\* The first j batches of a history, one after the other.
ConcatTo(f, j) ==
    IF j = 0 THEN <<>> ELSE ConcatTo(f, j - 1) \o PageBody(f[j].page, f[j].n)

Min(a, b) == IF a < b THEN a ELSE b

\* C1: whenever the call returns and a limit was passed, the returned list has
\* at most limit records (stated for the limits a list can meet, limit >= 0;
\* no list has fewer than zero records).
C1_AtMostLimit ==
    \A c \in Calls :
        (Success(c) /\ args[c].limit # None /\ Val(args[c].limit) >= 0)
            => Len(outcome[c].value) <= Val(args[c].limit)

\* Page j of a call's history ends the fetch: it is empty, or shorter than
\* 100 records, or brings the accumulator to at least the limit passed.
StopPage(c, j) ==
    \/ fetched[c][j].n < PER_PAGE
    \/ /\ args[c].limit # None
       /\ SumN(fetched[c], j) >= Val(args[c].limit)

\* C2: no request is issued after the first page that is empty, short or
\* brings the accumulator to the limit, and an error-free call ends with
\* exactly as many requests as the index of that page.
C2_RequestCount ==
    \A c \in Calls :
        /\ \A j \in 1..Len(fetched[c]) : StopPage(c, j) => Len(reqlog[c]) = j
        /\ Success(c) => /\ Len(reqlog[c]) >= 1
                         /\ Len(fetched[c]) = Len(reqlog[c])
                         /\ StopPage(c, Len(reqlog[c]))

\* The error kind that an outcome is.
KindOf(o) ==
    CASE o.exc = "ValueError" -> "InvalidDateFormat"
      [] o.exc = "SystemExit" /\ o.msg = "Error: Invalid GitHub token" -> "Unauthorized"
      [] o.exc = "SystemExit" /\ o.msg = "Error: API rate limit exceeded" -> "RateLimited"
      [] o.exc = "SystemExit" /\ o.msg = "Error: Repository not found" -> "NotFound"
      [] o.exc = "SystemExit" -> "TransportError"
      [] OTHER -> "Unclassified"

\* C3: a failed page request ends the call in the error kind of its HTTP
\* status: 401 Unauthorized, 403 RateLimited, 404 NotFound, anything else
\* TransportError, and never in an unclassified error.
C3_ErrorKinds ==
    \A c \in Calls :
        failStatus[c] # 0 =>
            KindOf(outcome[c]) =
                CASE failStatus[c] = 401 -> "Unauthorized"
                  [] failStatus[c] = 403 -> "RateLimited"
                  [] failStatus[c] = 404 -> "NotFound"
                  [] OTHER -> "TransportError"

\* C4: once the request for page k has failed, the call issues no further
\* request and returns no list: it ends by raising.
C4_ErrorsTerminal ==
    \A c \in Calls :
        failedAt[c] # 0 =>
            /\ Len(reqlog[c]) = failedAt[c]
            /\ inflight[c] = {}
            /\ pc[c] \in {"finally", "done"}
            /\ outcome[c].kind = "raise"

\* A call has ended on a failure of its third request, with two pages
\* accumulated before it.
C4_Witness ==
    \E c \in Calls :
        /\ pc[c] = "done"
        /\ failedAt[c] = 3
        /\ Len(pulls[c]) = 2 * PER_PAGE
        /\ outcome[c].kind = "raise"

\* A date in the form YYYY-MM-DD: four digits, two digits, two digits, that
\* name a day of the calendar.
IsIsoDate(s) ==
    /\ Len(s) = 10
    /\ \A i \in {1, 2, 3, 4, 6, 7, 9, 10} : s[i] \in Digits
    /\ s[5] = "-"
    /\ s[8] = "-"
    /\ LET y == 1000 * DigitVal(s[1]) + 100 * DigitVal(s[2])
                + 10 * DigitVal(s[3]) + DigitVal(s[4])
           m == 10 * DigitVal(s[6]) + DigitVal(s[7])
           d == 10 * DigitVal(s[9]) + DigitVal(s[10])
       IN  y >= 1 /\ m \in 1..12 /\ d \in 1..DaysInMonth(y, m)

InvalidDateArg(o) == o # None /\ ~IsIsoDate(Val(o))

\* C5: when created_after or created_before is supplied and is not a valid
\* YYYY-MM-DD date, the call fails with ValueError before a session is
\* created and before any request is issued.
C5_InvalidDateRejected ==
    \A c \in Calls :
        (InvalidDateArg(args[c].created_after)
             \/ InvalidDateArg(args[c].created_before))
            => /\ session[c] = "none"
               /\ reqlog[c] = <<>>
               /\ pc[c] \in {"start", "done"}
               /\ pc[c] = "done" => outcome[c].exc = "ValueError"

\* The created parameter by which bounds are set.
ExpectedCreated(created_after, created_before) ==
    IF created_after # None /\ created_before # None
    THEN Some(Val(created_after) \o <<".", ".">> \o Val(created_before))
    ELSE IF created_after # None THEN Some(<<">", "=">> \o Val(created_after))
    ELSE IF created_before # None THEN Some(<<"<", "=">> \o Val(created_before))
    ELSE None

\* C6: on every request of a call the created parameter is ">=a" when only
\* created_after = a is set, "<=b" when only created_before = b is set,
\* "a..b" when both are set, and absent when neither is set.
C6_CreatedParam ==
    \A c \in Calls : \A i \in 1..Len(reqlog[c]) :
        reqlog[c][i].created =
            ExpectedCreated(args[c].created_after, args[c].created_before)

\* C7: a call that has ended has left no session open, and session.get is
\* never called on a session that has been closed.
C7_SessionClosed ==
    \A c \in Calls :
        /\ pc[c] = "done" => session[c] # "open"
        /\ session[c] = "closed" => pc[c] = "done" /\ inflight[c] = {}
        /\ ~badUse[c]

\* A call that created a session has ended on a failure in the middle of the
\* loop and its session is closed.
C7_Witness ==
    \E c \in Calls :
        /\ pc[c] = "done"
        /\ session[c] = "closed"
        /\ failedAt[c] >= 2

\* C8: on success the returned list is a prefix of the batches received, in
\* the order received, the batches being pages 1, 2, ... in order; with a
\* positive limit L and N records in the pages up to the first short or empty
\* one, it is exactly the first min(L, N) records.
C8_PrefixInOrder ==
    \A c \in Calls :
        Success(c) =>
            LET all == ConcatTo(fetched[c], Len(fetched[c]))
                res == outcome[c].value
            IN  /\ \A j \in 1..Len(fetched[c]) : fetched[c][j].page = j
                /\ Len(res) <= Len(all)
                /\ res = SubSeq(all, 1, Len(res))
                /\ (args[c].limit # None /\ Val(args[c].limit) > 0)
                       => Len(res) = Min(Val(args[c].limit), Len(all))
                /\ args[c].limit = None => res = all

\* A call with a positive limit has returned after two pages, and the limit
\* cut records off the second page.
C8_Witness ==
    \E c \in Calls :
        /\ Success(c)
        /\ Len(fetched[c]) = 2
        /\ args[c].limit # None
        /\ Val(args[c].limit) > PER_PAGE
        /\ Len(outcome[c].value) = Val(args[c].limit)
        /\ Len(outcome[c].value) < SumN(fetched[c], 2)

\* C9: at most one request of a call is outstanding at any time, the i-th
\* request asks for page i, and a request is issued only when every earlier
\* one has been answered and processed.
C9_Sequential ==
    \A c \in Calls :
        /\ Cardinality(inflight[c]) <= 1
        /\ \A i \in 1..Len(reqlog[c]) : reqlog[c][i].page = i
        /\ Len(reqlog[c]) = Len(fetched[c]) + Cardinality(inflight[c])
                            + (IF failedAt[c] # 0 THEN 1 ELSE 0)
        /\ pc[c] = "await" <=> inflight[c] # {}

\* The request for the third page is outstanding; two pages were processed.
C9_Witness ==
    \E c \in Calls :
        /\ Len(reqlog[c]) = 3
        /\ Cardinality(inflight[c]) = 1
        /\ Len(fetched[c]) = 2

\* C10, as claimed: no call reads state that the other call wrote, the cache
\* entries its session stored included.
C10_NothingShared ==
    \A c \in Calls : crossReads[c] = 0

RECURSIVE SoloRun(_, _, _, _)
\* The call with arguments a run alone against the server: its outcome and
\* the number of page requests it makes, from page pg with accumulator pl
\* after k requests.
SoloRun(a, pg, pl, k) ==
    LET params == BuildParams(pg, a.created_after, a.created_before)
    IN  IF params \notin DOMAIN served
        THEN [outcome |-> Running, reqs |-> k + 1]
        ELSE IF served[params].kind = "fail"
        THEN [outcome |-> HandleFailure(served[params].status).outcome,
              reqs |-> k + 1]
        ELSE LET res == ProcessBatch(pl, PageBody(pg, served[params].n),
                                     a.limit, pg)
             IN  IF res.next = "loop"
                 THEN SoloRun(a, res.page, res.pulls, k + 1)
                 ELSE [outcome |-> Returned(res.pulls), reqs |-> k + 1]

\* C10, amended: the calls share the response cache and nothing else; against
\* a server that answers equal requests equally, each call ends as it would
\* alone: the same outcome after the same page requests 1, 2, ... to its
\* session.
C10_SameAsAlone ==
    \A c \in Calls :
        pc[c] = "done" /\ session[c] # "none" =>
            LET solo == SoloRun(args[c], 1, <<>>, 0)
            IN  /\ outcome[c] = solo.outcome
                /\ Len(reqlog[c]) = solo.reqs
                /\ \A i \in 1..Len(reqlog[c]) :
                       reqlog[c][i] = BuildParams(i, args[c].created_after,
                                                  args[c].created_before)

\* A call has returned two pages, one of them answered from a cache entry
\* that the other call stored.
C10_Witness ==
    \E c \in Calls :
        /\ Success(c)
        /\ crossReads[c] > 0
        /\ Len(fetched[c]) = 2
        /\ Len(outcome[c].value) > PER_PAGE

====
